---- MODULE Spec2Model ----
(***************************************************************************)
(* Model of the playback-queue core of the voice-streaming bot:            *)
(*   src/src/audio.py  -- Audio (track record) and AudioQueue (controller) *)
(*   src/src/voice.py  -- Voice (playback driver)                          *)
(* Queue operations are written as operators on a record of the queue's    *)
(* fields, in the order of the statements of the code; each action of the  *)
(* specification applies one whole operation.                              *)
(***************************************************************************)
EXTENDS Integers, Sequences, FiniteSets, TLC

(* ---------------------------- bounds ---------------------------------- *)
NumTracks == 3
MaxBus == 1

\* The capacities the queue is constructed with.
max_queue_size == 2
max_previous_queue_size == 1

None == 0
NoTime == -1
Tracks == 1..NumTracks

VARIABLES queue, previous_queue, current_audio, audios, constructed, trace, lastOp,
          voice, transport, bus, vlog, probes, heard

vars == <<queue, previous_queue, current_audio, audios, constructed, trace, lastOp,
          voice, transport, bus, vlog, probes, heard>>

(* ------------------------------ Audio --------------------------------- *)

\* The record a caller constructs: every field but end_time (init=False).
NewAudio == [audio_url |-> 1, webpage_url |-> 1, title |-> 1, length |-> 1,
             thumbnail |-> 1, end_time |-> NoTime]

\* What the track resolver (get_audio) can answer: an entry, or nothing.
NoEntry == [found |-> FALSE, audio_url |-> 0, webpage_url |-> 0, title |-> 0,
            length |-> 0, thumbnail |-> 0]
FreshEntry == [found |-> TRUE, audio_url |-> 2, webpage_url |-> 2, title |-> 2,
               length |-> 2, thumbnail |-> 2]
Entries == {NoEntry, FreshEntry}

\* What the HEAD probe of the stream URL can give.
Probes == {"200", "404", "ConnectionError"}

\* The environment's answers during one operation.
Envs == [probe : Probes, entry : Entries]

is_stale(probe) ==
    IF probe = "ConnectionError" THEN TRUE ELSE probe # "200"

\* A refresh that overwrites the stream URL even when the resolver found nothing.
refresh_clobbers(audio, entry) ==
    IF entry.found
    THEN [ok |-> TRUE,
          audio |-> [audio EXCEPT !.audio_url = entry.audio_url,
                                  !.webpage_url = entry.webpage_url,
                                  !.title = entry.title,
                                  !.length = entry.length,
                                  !.thumbnail = entry.thumbnail]]
    ELSE [ok |-> FALSE, audio |-> [audio EXCEPT !.audio_url = entry.audio_url]]

refresh(audio, entry) ==
    IF entry.found
    THEN [ok |-> TRUE,
          audio |-> [audio EXCEPT !.audio_url = entry.audio_url,
                                  !.webpage_url = entry.webpage_url,
                                  !.title = entry.title,
                                  !.length = entry.length,
                                  !.thumbnail = entry.thumbnail]]
    ELSE [ok |-> FALSE, audio |-> audio]

\* end_time is kept relative to the instant of the call (datetime.now()).
set_end_time(audio, offset) ==
    [audio EXCEPT !.end_time = audio.length - offset]

(* ---------------------------- event log ------------------------------- *)

Ev(name, a, r) == [ev |-> name, a |-> a, r |-> r]

\* The events the playback driver subscribes to when it is constructed.
Subscribed == {"new_audio", "no_audio"}

\* post_event hands the event to the bus, which keeps it for its subscribers.
post_event(s, name, a) ==
    [s EXCEPT !.trace = Append(@, Ev(name, a, FALSE)),
              !.bus = IF s.subscribed /\ name \in Subscribed
                      THEN Append(@, Ev(name, a, FALSE))
                      ELSE @]

(* ---------------------------- AudioQueue ------------------------------ *)

\* State of a queue right after __init__.
NewQueue == [queue |-> <<>>, previous_queue |-> <<>>, current_audio |-> None,
             audios |-> [t \in Tracks |-> NewAudio], trace |-> <<>>, ret |-> None,
             bus |-> <<>>, subscribed |-> FALSE]

\* current_audio.setter
set_current_audio(s, a, e) ==
    LET stale == IF a # None THEN is_stale(e.probe) ELSE FALSE
        s1 == IF a # None
              THEN [s EXCEPT !.trace = Append(@, Ev("is_stale", a, stale))]
              ELSE s
        rf == refresh(s1.audios[a], e.entry)
        s2 == IF a # None /\ stale
              THEN [s1 EXCEPT !.audios[a] = rf.audio,
                              !.trace = Append(@, Ev("refresh", a, rf.ok))]
              ELSE s1
        s3 == [s2 EXCEPT !.current_audio = a]
    IN  IF s3.current_audio # None
        THEN LET s4 == [s3 EXCEPT
                          !.audios[a] = set_end_time(@, 0),
                          !.trace = Append(@, Ev("set_end_time", a, FALSE))]
             IN  post_event(s4, "new_audio", a)
        ELSE post_event(s3, "no_audio", None)

_add_to_previous_queue(s, a) ==
    IF Len(s.previous_queue) > max_previous_queue_size
    THEN [s EXCEPT !.previous_queue = Append(Tail(@), a)]
    ELSE [s EXCEPT !.previous_queue = Append(@, a)]

\* A get_next_audio that forgets the history when the forward queue is empty.
get_next_audio_forgets(s, e) ==
    IF Len(s.queue) > 0
    THEN LET s1 == IF s.current_audio # None
                   THEN _add_to_previous_queue(s, s.current_audio)
                   ELSE s
             next_audio == Head(s1.queue)
             s2 == [s1 EXCEPT !.queue = Tail(@)]
             s3 == set_current_audio(s2, next_audio, e)
         IN  [s3 EXCEPT !.ret = next_audio]
    ELSE LET s2 == set_current_audio(s, None, e)
         IN  [s2 EXCEPT !.ret = None]

get_next_audio(s, e) ==
    IF Len(s.queue) > 0
    THEN LET s1 == IF s.current_audio # None
                   THEN _add_to_previous_queue(s, s.current_audio)
                   ELSE s
             next_audio == Head(s1.queue)
             s2 == [s1 EXCEPT !.queue = Tail(@)]
             s3 == set_current_audio(s2, next_audio, e)
         IN  [s3 EXCEPT !.ret = next_audio]
    ELSE LET s1 == IF s.current_audio # None
                   THEN _add_to_previous_queue(s, s.current_audio)
                   ELSE s
             s2 == set_current_audio(s1, None, e)
         IN  [s2 EXCEPT !.ret = None]

\* A get_previous_audio that puts the current track back at the tail.
get_previous_audio_tail(s, e) ==
    IF Len(s.previous_queue) > 0
    THEN LET s1 == IF s.current_audio # None
                   THEN [s EXCEPT !.queue = Append(@, s.current_audio)]
                   ELSE s
             n == Len(s1.previous_queue)
             previous_audio == s1.previous_queue[n]
             s2 == [s1 EXCEPT !.previous_queue = SubSeq(@, 1, n - 1)]
             s3 == set_current_audio(s2, previous_audio, e)
         IN  [s3 EXCEPT !.ret = previous_audio]
    ELSE [s EXCEPT !.ret = None]

\* A get_previous_audio that empties the current slot when the history is empty.
get_previous_audio_idles(s, e) ==
    IF Len(s.previous_queue) > 0
    THEN LET s1 == IF s.current_audio # None
                   THEN [s EXCEPT !.queue = <<s.current_audio>> \o @]
                   ELSE s
             n == Len(s1.previous_queue)
             previous_audio == s1.previous_queue[n]
             s2 == [s1 EXCEPT !.previous_queue = SubSeq(@, 1, n - 1)]
             s3 == set_current_audio(s2, previous_audio, e)
         IN  [s3 EXCEPT !.ret = previous_audio]
    ELSE [set_current_audio(s, None, e) EXCEPT !.ret = None]

get_previous_audio(s, e) ==
    IF Len(s.previous_queue) > 0
    THEN LET s1 == IF s.current_audio # None
                   THEN [s EXCEPT !.queue = <<s.current_audio>> \o @]
                   ELSE s
             n == Len(s1.previous_queue)
             previous_audio == s1.previous_queue[n]
             s2 == [s1 EXCEPT !.previous_queue = SubSeq(@, 1, n - 1)]
             s3 == set_current_audio(s2, previous_audio, e)
         IN  [s3 EXCEPT !.ret = previous_audio]
    ELSE [s EXCEPT !.ret = None]

\* A capacity test that still admits a track when the queue is at capacity.
_is_below_or_at_max_queue_size(s) == Len(s.queue) <= max_queue_size

_is_below_max_queue_size(s) == Len(s.queue) < max_queue_size

\* An _add_to_queue that ignores add_to_start.
_add_to_queue_tail_only(s, a, add_to_start, e) ==
    IF a # None
    THEN IF _is_below_max_queue_size(s)
         THEN LET s1 == [s EXCEPT !.queue = Append(@, a)]
              IN  IF s1.current_audio = None
                  THEN [get_next_audio(s1, e) EXCEPT !.ret = None]
                  ELSE [post_event(s1, "queue_update", None) EXCEPT !.ret = None]
         ELSE [s EXCEPT !.ret = None]
    ELSE [s EXCEPT !.ret = None]

\* An _add_to_queue without the isinstance test.
_add_to_queue_unchecked(s, a, add_to_start, e) ==
    IF _is_below_max_queue_size(s)
    THEN LET s1 == IF add_to_start
                   THEN [s EXCEPT !.queue = <<a>> \o @]
                   ELSE [s EXCEPT !.queue = Append(@, a)]
         IN  IF s1.current_audio = None
             THEN [get_next_audio(s1, e) EXCEPT !.ret = None]
             ELSE [post_event(s1, "queue_update", None) EXCEPT !.ret = None]
    ELSE [s EXCEPT !.ret = None]

\* isinstance(audio, Audio): the only non-Audio value the code passes is None.
_add_to_queue(s, a, add_to_start, e) ==
    IF a # None
    THEN IF _is_below_max_queue_size(s)
         THEN LET s1 == IF add_to_start
                        THEN [s EXCEPT !.queue = <<a>> \o @]
                        ELSE [s EXCEPT !.queue = Append(@, a)]
              IN  IF s1.current_audio = None
                  THEN [get_next_audio(s1, e) EXCEPT !.ret = None]
                  ELSE [post_event(s1, "queue_update", None) EXCEPT !.ret = None]
         ELSE [s EXCEPT !.ret = None]
    ELSE [s EXCEPT !.ret = None]

append(s, a, e) == _add_to_queue(s, a, FALSE, e)

append_left(s, a, e) == _add_to_queue(s, a, TRUE, e)

\* A restart_queue that clears the history before it is put in front of the queue.
restart_queue_clears_first(s, e) ==
    LET s1 == append_left(s, s.current_audio, e)
        s2 == [s1 EXCEPT !.previous_queue = <<>>]
        s3 == [s2 EXCEPT !.queue = s2.previous_queue \o s2.queue]
    IN  [get_next_audio(s3, e) EXCEPT !.ret = None]

restart_queue(s, e) ==
    LET s1 == append_left(s, s.current_audio, e)
        s2 == [s1 EXCEPT !.queue = s1.previous_queue \o s1.queue]
        s3 == [s2 EXCEPT !.previous_queue = <<>>]
    IN  [get_next_audio(s3, e) EXCEPT !.ret = None]

clear_next_queue(s) ==
    post_event([s EXCEPT !.queue = <<>>], "queue_update", None)

clear_previous_queue(s) ==
    post_event([s EXCEPT !.previous_queue = <<>>], "queue_update", None)

\* A reset_queue that empties the current slot through the setter.
reset_queue_through_setter(s) ==
    LET s1 == clear_next_queue(s)
        s2 == clear_previous_queue(s1)
        s3 == set_current_audio(s2, None, [probe |-> "200", entry |-> NoEntry])
    IN  [s3 EXCEPT !.ret = None]

reset_queue(s) ==
    LET s1 == clear_next_queue(s)
        s2 == clear_previous_queue(s1)
    IN  [s2 EXCEPT !.current_audio = None, !.ret = None]

\* A remove_current_audio that only empties the slot.
remove_current_audio_only(s, e) ==
    IF s.current_audio # None
    THEN [s EXCEPT !.current_audio = None, !.ret = s.audios[s.current_audio].title]
    ELSE [s EXCEPT !.ret = None]

\* Returns the title of the removed track, or None.
remove_current_audio(s, e) ==
    IF s.current_audio # None
    THEN LET s1 == [s EXCEPT !.current_audio = None]
             title == s.audios[s.current_audio].title
         IN  [get_next_audio(s1, e) EXCEPT !.ret = title]
    ELSE [s EXCEPT !.ret = None]

(* ------------------------------- Voice -------------------------------- *)

\* The voice channel an Audio was constructed with.
voice_channel(a) == 1 + (a % 2)

\* bot.voice_clients is empty.
NoTransport == [exists |-> FALSE, channel |-> 0, connected |-> FALSE,
                source |-> None]

\* State of a driver right after __init__.
NewVoice(after_function) ==
    [exists |-> TRUE, after_function |-> after_function, client |-> FALSE,
     cur_audio |-> None]

\* No driver was constructed: nothing subscribes to the queue's events.
NoVoice == [exists |-> FALSE, after_function |-> FALSE, client |-> FALSE,
            cur_audio |-> None]

Logged(d, what) == [d EXCEPT !.log = Append(@, what)]

is_playing(d) == d.voice.client /\ d.transport.source # None

\* connect() raises ClientException when the bot already has a voice client;
\* move_to on a missing client raises AttributeError, which nothing catches.
join_voice(d, channel) ==
    IF ~d.transport.exists
    THEN [Logged(d, "connect") EXCEPT
            !.transport = [NoTransport EXCEPT !.exists = TRUE,
                                              !.channel = channel,
                                              !.connected = TRUE],
            !.voice.client = TRUE]
    ELSE IF d.voice.client
         THEN [Logged(d, "move_to") EXCEPT !.transport.channel = channel,
                                           !.transport.connected = TRUE,
                                           !.voice.client = TRUE]
         ELSE [Logged(d, "AttributeError") EXCEPT !.raised = TRUE]

check_voice(d, channel) ==
    IF d.voice.client /\ d.transport.connected
    THEN Logged(d, "remain")
    ELSE join_voice(d, channel)

\* The source streams the Audio it was built from.
_get_audio_source(a) == a

\* A stream that stops the player and plays again instead of replacing the
\* source.
stream_restarts(d, a, play_ok) ==
    LET d1 == check_voice(d, voice_channel(a))
        audio_source == _get_audio_source(a)
        d2 == [d1 EXCEPT !.voice.cur_audio = a]
    IN  IF d1.raised
        THEN d1
        ELSE IF is_playing(d2)
             THEN [Logged(Logged(Logged(d2, "stop"), "play"), "error_logged")
                     EXCEPT !.transport.source = audio_source]
             ELSE IF play_ok
                  THEN [Logged(Logged(d2, "play"), "error_logged") EXCEPT
                          !.transport.source = audio_source]
                  ELSE Logged(Logged(d2, "play_raised"), "error_logged")

\* play_ok: whether client.play starts the player or raises.  When it starts,
\* it returns None and to_thread(None) raises the TypeError that is logged.
stream(d, a, play_ok) ==
    LET d1 == check_voice(d, voice_channel(a))
        audio_source == _get_audio_source(a)
        d2 == [d1 EXCEPT !.voice.cur_audio = a]
    IN  IF d1.raised
        THEN d1
        ELSE IF is_playing(d2)
             THEN [Logged(d2, "source_replaced") EXCEPT
                     !.transport.source = audio_source]
             ELSE IF play_ok
                  THEN [Logged(Logged(d2, "play"), "error_logged") EXCEPT
                          !.transport.source = audio_source]
                  ELSE Logged(Logged(d2, "play_raised"), "error_logged")

Called(d, what) == \E i \in DOMAIN d.log : d.log[i] = what

\* A completion callback that gives up on an error.
after_unless_error(d, error) ==
    LET d1 == Logged([d EXCEPT !.voice.cur_audio = None], "cur_audio_cleared")
    IN  IF error
        THEN Logged(Logged(d1, "play_error"), "error_logged")
        ELSE IF d1.voice.after_function
             THEN Logged(d1, "after_function")
             ELSE d1

\* The completion callback; the log tells when the reference is cleared and
\* whether the continuation is called.
after(d, error) ==
    LET d1 == Logged([d EXCEPT !.voice.cur_audio = None], "cur_audio_cleared")
        d2 == IF error THEN Logged(Logged(d1, "play_error"), "error_logged") ELSE d1
    IN  IF d2.voice.after_function
        THEN Logged(d2, "after_function")
        ELSE d2

\* A disconnect_voice that forgets the client only when there was none.
disconnect_voice_keeps_client(d) ==
    IF d.voice.client
    THEN [Logged(d, "disconnect") EXCEPT !.transport = NoTransport]
    ELSE [Logged(d, "warning_logged") EXCEPT !.voice.client = FALSE]

disconnect_voice(d) ==
    LET d1 == IF d.voice.client
              THEN [Logged(d, "disconnect") EXCEPT !.transport = NoTransport]
              ELSE Logged(d, "warning_logged")
    IN  [d1 EXCEPT !.voice.client = FALSE]

\* The continuation the driver is constructed with advances the queue.
after_function(s, e) == get_next_audio(s, e)

(* ------------------------- state and actions -------------------------- *)

\* The queue's fields as one record, with the log of the operation starting.
Self == [queue |-> queue, previous_queue |-> previous_queue,
         current_audio |-> current_audio, audios |-> audios,
         trace |-> <<>>, ret |-> None, bus |-> bus, subscribed |-> voice.exists]

\* The driver's fields and its transport, with the log of the step starting.
Driver == [voice |-> voice, transport |-> transport, log |-> <<>>, raised |-> FALSE]

Elems(seq) == {seq[i] : i \in DOMAIN seq}

\* The Audio objects something still refers to.
Referenced(s, d) ==
    Elems(s.queue) \cup Elems(s.previous_queue) \cup {s.current_audio}
        \cup {s.bus[i].a : i \in DOMAIN s.bus}
        \cup {d.voice.cur_audio, d.transport.source}

IsPromotion(x) == x.ev \in {"new_audio", "no_audio"}

\* What the bus has been told about the current slot: the last new_audio or
\* no_audio published so far, and whether reset_queue ran since then.
Heard(t, name) ==
    LET told == SelectSeq(t, IsPromotion)
    IN  IF told # <<>>
        THEN [last |-> told[Len(told)], reset_since |-> FALSE]
        ELSE [heard EXCEPT !.reset_since = @ \/ name = "reset_queue"]

\* Store the result of the step `name` called with argument `arg`; lastOp
\* remembers the call, its return value and whether it directly followed a
\* get_next_audio; trace and vlog are the logs of this step.  An Audio that
\* nothing refers to any more is gone: its fields are forgotten.
Step(s, d, name, arg) ==
    /\ queue' = s.queue
    /\ previous_queue' = s.previous_queue
    /\ current_audio' = s.current_audio
    /\ audios' = [t \in Tracks |->
                    IF t \in Referenced(s, d) THEN s.audios[t] ELSE NewAudio]
    /\ trace' = s.trace
    /\ bus' = s.bus
    /\ voice' = d.voice
    /\ transport' = d.transport
    /\ vlog' = d.log
    /\ probes' = probes
    /\ heard' = Heard(s.trace, name)
    /\ lastOp' = [name |-> name, arg |-> arg, ret |-> s.ret,
                  after_next |-> (lastOp.name = "get_next_audio")]

\* A queue operation: the driver is not involved.  The bus holds at most
\* MaxBus events that the driver has not handled yet.
Becomes(s, name, arg) ==
    /\ Len(bus) < MaxBus
    /\ Step(s, Driver, name, arg)

InitQueue ==
    /\ queue = NewQueue.queue
    /\ previous_queue = NewQueue.previous_queue
    /\ current_audio = NewQueue.current_audio
    /\ audios = NewQueue.audios
    /\ bus = NewQueue.bus
    /\ constructed = 0
    /\ trace = <<>>
    /\ vlog = <<>>
    /\ lastOp = [name |-> "init", arg |-> None, ret |-> None, after_next |-> FALSE]
    /\ transport = NoTransport
    /\ heard = [last |-> Ev("none", None, FALSE), reset_since |-> FALSE]

\* The queue on its own; the stream host may answer anything.
Init ==
    /\ InitQueue
    /\ voice = NoVoice
    /\ probes = Probes

\* The queue and a driver, constructed with or without a continuation; the
\* stream host is healthy, so that no promotion finds its track stale.
InitVoice ==
    /\ InitQueue
    /\ \E f \in BOOLEAN : voice = NewVoice(f)
    /\ probes = {"200"}

\* The answers the environment can give during one operation of this run.
EnvsNow == {e \in Envs : e.probe \in probes}

\* A caller hands in the Audio it has just constructed: every Audio object is
\* offered once, and objects are numbered in the order of their construction.
AppendOp ==
    \E e \in EnvsNow :
      LET a == constructed + 1 IN
        /\ constructed < NumTracks
        /\ constructed' = a
        /\ Becomes(append(Self, a, e), "append", a)

AppendLeftOp ==
    \E e \in EnvsNow :
      LET a == constructed + 1 IN
        /\ constructed < NumTracks
        /\ constructed' = a
        /\ Becomes(append_left(Self, a, e), "append_left", a)

GetNextAudioOp ==
    \E e \in EnvsNow :
        /\ Becomes(get_next_audio(Self, e), "get_next_audio", None)
        /\ UNCHANGED constructed

GetPreviousAudioOp ==
    \E e \in EnvsNow :
        /\ Becomes(get_previous_audio(Self, e), "get_previous_audio", None)
        /\ UNCHANGED constructed

RestartQueueOp ==
    \E e \in EnvsNow :
        /\ Becomes(restart_queue(Self, e), "restart_queue", None)
        /\ UNCHANGED constructed

RemoveCurrentAudioOp ==
    \E e \in EnvsNow :
        /\ Becomes(remove_current_audio(Self, e), "remove_current_audio", None)
        /\ UNCHANGED constructed

ResetQueueOp ==
    /\ Becomes(reset_queue(Self), "reset_queue", None)
    /\ UNCHANGED constructed

\* The bus delivers new_audio(a) to the driver.
StreamOp ==
    /\ voice.exists
    /\ bus # <<>>
    /\ Head(bus).ev = "new_audio"
    /\ \E play_ok \in BOOLEAN :
         LET a == Head(bus).a IN
         Step([Self EXCEPT !.bus = Tail(bus)],
              stream(Driver, a, play_ok), "stream", a)
    /\ UNCHANGED constructed

\* The bus delivers no_audio to the driver.
DisconnectVoiceOp ==
    /\ voice.exists
    /\ bus # <<>>
    /\ Head(bus).ev = "no_audio"
    /\ Step([Self EXCEPT !.bus = Tail(bus)],
            disconnect_voice(Driver), "disconnect_voice", None)
    /\ UNCHANGED constructed

\* The transport ends the playing source, naturally or with an error, and
\* invokes the completion callback registered by play.
PlaybackEndsOp ==
    /\ transport.source # None
    /\ Len(bus) < MaxBus
    /\ \E error \in BOOLEAN, e \in EnvsNow :
         LET ended == [Driver EXCEPT !.transport.source = None]
             d == after(ended, error)
         IN  IF Called(d, "after_function")
             THEN Step(after_function(Self, e), d, "get_next_audio", None)
             ELSE Step(Self, d, "after", None)
    /\ UNCHANGED constructed

\* The transport loses its connection; the voice client stays registered.
ConnectionDropsOp ==
    /\ transport.exists
    /\ transport.connected
    /\ Step(Self, [Driver EXCEPT !.transport.connected = FALSE],
            "connection_lost", None)
    /\ UNCHANGED constructed

Next ==
    \/ AppendOp
    \/ AppendLeftOp
    \/ GetNextAudioOp
    \/ GetPreviousAudioOp
    \/ RestartQueueOp
    \/ RemoveCurrentAudioOp
    \/ ResetQueueOp

NextVoice ==
    \/ Next
    \/ StreamOp
    \/ DisconnectVoiceOp
    \/ PlaybackEndsOp
    \/ ConnectionDropsOp

Spec == Init /\ [][Next]_vars

SpecVoice == InitVoice /\ [][NextVoice]_vars

(* ------------------------------ helpers ------------------------------- *)

Count(seq, t) == Cardinality({i \in DOMAIN seq : seq[i] = t})

IsPublished(x) == x.ev \in {"new_audio", "no_audio", "queue_update"}

\* The events an operation handed to the event bus, in order.
Published(t) == SelectSeq(t, IsPublished)

NewAudioEv(a) == Ev("new_audio", a, FALSE)
NoAudioEv == Ev("no_audio", None, FALSE)
QueueUpdateEv == Ev("queue_update", None, FALSE)

\* The tracks that become current, in order, when get_next_audio is repeated
\* until the queue is idle, the current one first.
RECURSIVE Drained(_, _)
Drained(s, e) ==
    IF s.current_audio = None
    THEN <<>>
    ELSE <<s.current_audio>> \o Drained(get_next_audio(s, e), e)

(* ------------------------------ claims -------------------------------- *)

\* C1: a track is in at most one of the forward queue, the history and the
\* current slot, and at most once there.
C1_NoAliasing ==
    \A t \in Tracks :
        Count(queue, t) + Count(previous_queue, t)
            + (IF current_audio = t THEN 1 ELSE 0) <= 1

\* C2: the forward queue never holds more than max_queue_size tracks.
C2_QueueWithinMax == Len(queue) <= max_queue_size

\* C3: the history never holds more than max_previous_queue_size tracks, and
\* when adding the current track to the history drops an entry, the entry
\* dropped is the oldest.
C3_HistoryWithinMaxOldestEvicted ==
    [][ /\ Len(previous_queue') <= max_previous_queue_size
        /\ ( /\ lastOp'.name = "get_next_audio"
             /\ current_audio # None
             /\ Len(previous_queue') <= Len(previous_queue)
             => previous_queue' = Append(Tail(previous_queue), current_audio) )
      ]_vars

\* C4: every playback-transport failure for the track handed over by
\* new_audio, raised when the driver starts playback or reported through the
\* completion callback, is caught and followed by the continuation being
\* invoked (the driver being constructed with one), which advances the queue.
C4_TransportFailureAdvances ==
    [][ ( /\ voice.after_function
          /\ \E i \in DOMAIN vlog' : vlog'[i] \in {"play_raised", "play_error"} )
        => ( /\ \E j \in DOMAIN vlog' : vlog'[j] = "after_function"
             /\ lastOp'.name = "get_next_audio" )
      ]_vars

\* C5 as claimed: from every reachable state, get_next_audio and then
\* get_previous_audio give back the current slot (a track or empty) and the
\* forward queue.
C5_NextThenPreviousRestores ==
    \A e1, e2 \in Envs :
        LET s2 == get_previous_audio(get_next_audio(Self, e1), e2)
        IN  s2.current_audio = current_audio /\ s2.queue = queue

\* C5 amended: from every reachable state with a current track,
\* get_next_audio and then get_previous_audio give back the current track and
\* the forward queue.
C5_NextThenPreviousRestoresPlaying ==
    current_audio # None =>
        \A e1, e2 \in Envs :
            LET s2 == get_previous_audio(get_next_audio(Self, e1), e2)
            IN  s2.current_audio = current_audio /\ s2.queue = queue

C5_Witness ==
    /\ lastOp.name = "get_previous_audio"
    /\ lastOp.after_next
    /\ lastOp.ret = 1
    /\ current_audio = 1
    /\ queue = <<2, 3>>

\* C6: from a state with a current track, restart_queue and then
\* get_next_audio until idle make current the history (oldest first), then the
\* track that was current, then the forward queue, also when the queue is full.
C6_RestartThenDrain ==
    current_audio # None =>
        \A e \in Envs :
            Drained(restart_queue(Self, e), e)
                = previous_queue \o <<current_audio>> \o queue

\* In the log t of one step, new_audio(a) comes after a staleness check of a,
\* and after a refresh attempt when the check said stale.
C7_CheckedBeforePublished(t) ==
    \A i \in DOMAIN t :
        t[i].ev = "new_audio" =>
            \E j \in 1..(i - 1) :
                /\ t[j].ev = "is_stale"
                /\ t[j].a = t[i].a
                /\ t[j].r =>
                     \E k \in (j + 1)..(i - 1) :
                         t[k].ev = "refresh" /\ t[k].a = t[i].a

\* A failed refresh leaves every field of a as it was, and a is still promoted:
\* it is current, its end time is set and new_audio(a) is published.
C7_FailedRefreshHarmless ==
    \A k \in DOMAIN trace' :
        (trace'[k].ev = "refresh" /\ ~trace'[k].r) =>
            LET a == trace'[k].a IN
            /\ [audios'[a] EXCEPT !.end_time = NoTime]
                 = [audios[a] EXCEPT !.end_time = NoTime]
            /\ current_audio' = a
            /\ audios'[a].end_time # NoTime
            /\ \E i \in (k + 1)..Len(trace') : trace'[i] = NewAudioEv(a)

\* C7: in every step, each published new_audio(a) comes after the staleness
\* check of a (and the refresh attempt of a stale a), and a failed refresh
\* changes no field of a and does not stop its promotion.
C7_PromotionChecksAndSurvivesRefresh ==
    [][C7_CheckedBeforePublished(trace') /\ C7_FailedRefreshHarmless]_vars

C7_Witness ==
    \E k \in DOMAIN trace :
        /\ trace[k].ev = "refresh"
        /\ ~trace[k].r
        /\ current_audio = trace[k].a
        /\ trace[Len(trace)] = NewAudioEv(current_audio)

\* C8: an accepted append or append_left promotes the track at once when the
\* queue is idle (only new_audio is published), and otherwise leaves the
\* current slot, puts the track at the tail or the head of the forward queue
\* and publishes one queue_update.
C8_AppendPromotesOrQueues ==
    [][ (lastOp'.name \in {"append", "append_left"} /\ Len(queue) < max_queue_size) =>
          LET a == lastOp'.arg IN
          IF current_audio = None
          THEN /\ current_audio' = a
               /\ Count(queue', a) = 0
               /\ Published(trace') = <<NewAudioEv(a)>>
          ELSE /\ current_audio' = current_audio
               /\ queue' = IF lastOp'.name = "append"
                           THEN Append(queue, a)
                           ELSE <<a>> \o queue
               /\ Published(trace') = <<QueueUpdateEv>>
      ]_vars

C8_Witness ==
    /\ lastOp.name = "append_left"
    /\ current_audio = 1
    /\ queue = <<3, 2>>
    /\ trace = <<QueueUpdateEv>>

\* C9: get_next_audio moves the current track, if any, to the tail of the
\* history; with a non-empty forward queue it pops the head into the current
\* slot, returns it and publishes new_audio for it; with an empty one it
\* returns none, leaves the slot empty and publishes one no_audio.
C9_GetNextAudio ==
    [][ lastOp'.name = "get_next_audio" =>
          /\ IF current_audio # None
             THEN /\ previous_queue' # <<>>
                  /\ previous_queue'[Len(previous_queue')] = current_audio
             ELSE previous_queue' = previous_queue
          /\ IF queue # <<>>
             THEN /\ current_audio' = Head(queue)
                  /\ queue' = Tail(queue)
                  /\ lastOp'.ret = Head(queue)
                  /\ Published(trace') = <<NewAudioEv(Head(queue))>>
             ELSE /\ current_audio' = None
                  /\ queue' = <<>>
                  /\ lastOp'.ret = None
                  /\ Published(trace') = <<NoAudioEv>>
      ]_vars

C9_Witness ==
    /\ lastOp.name = "get_next_audio"
    /\ lastOp.ret = 2
    /\ current_audio = 2
    /\ previous_queue = <<1>>
    /\ queue = <<3>>

\* C10: reset_queue leaves the forward queue, the history and the current
\* slot empty and publishes two queue_update events and nothing else.
C10_ResetQueue ==
    lastOp.name = "reset_queue" =>
        /\ queue = <<>>
        /\ previous_queue = <<>>
        /\ current_audio = None
        /\ Published(trace) = <<QueueUpdateEv, QueueUpdateEv>>

C10_Witness ==
    /\ lastOp.name = "reset_queue"
    /\ constructed >= 2
    /\ Len(trace) = 2

\* C11: with the forward queue at max_queue_size, append and append_left
\* change nothing: forward queue, history and current slot stay as they
\* were, the offered track is not in the queue and no event is published.
C11_FullQueueRejects ==
    [][ (lastOp'.name \in {"append", "append_left"} /\ Len(queue) >= max_queue_size) =>
          /\ queue' = queue
          /\ previous_queue' = previous_queue
          /\ current_audio' = current_audio
          /\ audios' = audios
          /\ Count(queue', lastOp'.arg) = 0
          /\ trace' = <<>>
          /\ bus' = bus
          /\ lastOp'.ret = None
      ]_vars

C11_Witness ==
    /\ lastOp.name \in {"append", "append_left"}
    /\ Len(queue) = max_queue_size
    /\ Count(queue, lastOp.arg) = 0
    /\ current_audio # lastOp.arg
    /\ trace = <<>>

\* Whether track t is in the forward queue, the history or the current slot.
Held(q, h, c, t) == Count(q, t) > 0 \/ Count(h, t) > 0 \/ c = t

\* C15: remove_current_audio with a current track X drops X (afterwards X is
\* in neither the history, the forward queue nor the current slot), leaves
\* the history as it was and advances the queue as get_next_audio does.
C15_RemoveCurrentDrops ==
    [][ (lastOp'.name = "remove_current_audio" /\ current_audio # None) =>
          /\ ~Held(queue', previous_queue', current_audio', current_audio)
          /\ previous_queue' = previous_queue
          /\ IF queue # <<>>
             THEN /\ current_audio' = Head(queue)
                  /\ queue' = Tail(queue)
                  /\ Published(trace') = <<NewAudioEv(Head(queue))>>
             ELSE /\ current_audio' = None
                  /\ queue' = <<>>
                  /\ Published(trace') = <<NoAudioEv>>
      ]_vars

\* C16: get_previous_audio with an empty history returns none and changes
\* nothing: forward queue, history and current slot stay as they were and no
\* event is published.
C16_PreviousOnEmptyHistory ==
    [][ (lastOp'.name = "get_previous_audio" /\ previous_queue = <<>>) =>
          /\ lastOp'.ret = None
          /\ queue' = queue
          /\ previous_queue' = previous_queue
          /\ current_audio' = current_audio
          /\ audios' = audios
          /\ trace' = <<>>
          /\ bus' = bus
      ]_vars

C16_Witness ==
    /\ lastOp.name = "get_previous_audio"
    /\ lastOp.ret = None
    /\ previous_queue = <<>>
    /\ current_audio = 1
    /\ queue = <<2, 3>>

\* C19: get_next_audio, get_previous_audio and restart_queue lose no track but
\* the oldest history entry when the history evicts it: a track that is in
\* the forward queue, the history or the current slot before is in one of
\* them afterwards.
C19_NoTrackLost ==
    [][ lastOp'.name \in {"get_next_audio", "get_previous_audio", "restart_queue"} =>
          \A t \in Tracks :
              Held(queue, previous_queue, current_audio, t) =>
                  \/ Held(queue', previous_queue', current_audio', t)
                  \/ /\ lastOp'.name = "get_next_audio"
                     /\ current_audio # None
                     /\ previous_queue # <<>>
                     /\ t = Head(previous_queue)
                     /\ previous_queue' = Append(Tail(previous_queue), current_audio)
      ]_vars

C19_Witness ==
    /\ lastOp.name = "restart_queue"
    /\ current_audio = 2
    /\ previous_queue = <<1>>
    /\ queue = <<3>>

\* C20: the forward queue and the history never contain the empty value, and
\* restart_queue on an idle queue inserts nothing for the missing current
\* track: it promotes the oldest history entry, or stays idle with one
\* no_audio when the history and the forward queue are empty.
C20_NoEmptyValueQueued ==
    [][ /\ Count(queue', None) = 0
        /\ Count(previous_queue', None) = 0
        /\ (lastOp'.name = "restart_queue" /\ current_audio = None) =>
             LET all == previous_queue \o queue IN
             /\ previous_queue' = <<>>
             /\ IF all # <<>>
                THEN /\ current_audio' = Head(all)
                     /\ previous_queue # <<>> => current_audio' = Head(previous_queue)
                     /\ queue' = Tail(all)
                     /\ Published(trace') = <<NewAudioEv(Head(all))>>
                ELSE /\ current_audio' = None
                     /\ queue' = <<>>
                     /\ Published(trace') = <<NoAudioEv>>
      ]_vars

C20_Witness ==
    /\ lastOp.name = "restart_queue"
    /\ current_audio = 1
    /\ previous_queue = <<>>
    /\ queue = <<2>>
    /\ Published(trace) = <<NewAudioEv(1)>>

QueueOps == {"append", "append_left", "get_next_audio", "get_previous_audio",
             "restart_queue", "remove_current_audio", "reset_queue"}

\* The last new_audio or no_audio published agrees with the current slot.
SlotAsPublished ==
    IF current_audio # None
    THEN heard.last = NewAudioEv(current_audio)
    ELSE heard.last.ev \in {"no_audio", "none"}

\* C18 as claimed: after every queue operation other than reset_queue, the
\* last published new_audio or no_audio agrees with the current slot.
C18_SlotAsPublished ==
    (lastOp.name \in QueueOps \ {"reset_queue"}) => SlotAsPublished

\* C18 amended: after every queue operation, the last published new_audio or
\* no_audio agrees with the current slot, as long as reset_queue has not run
\* since that event was published.
C18_SlotAsPublishedUnlessReset ==
    (lastOp.name \in QueueOps /\ ~heard.reset_since) => SlotAsPublished

C18_Witness ==
    /\ lastOp.name = "remove_current_audio"
    /\ current_audio = 2
    /\ heard = [last |-> NewAudioEv(2), reset_since |-> FALSE]
    /\ previous_queue = <<>>

\* C12: after the driver has handled new_audio(audio), the transport is
\* connected to audio's voice channel, joined when nothing was connected and
\* moved to when the transport was connected elsewhere.
C12_ConnectedToDestination ==
    lastOp.name = "stream" =>
        /\ transport.exists
        /\ transport.connected
        /\ transport.channel = voice_channel(lastOp.arg)

\* A step in which the transport ends its source and calls the completion
\* callback.
PlaybackEnded ==
    transport.source # None /\ transport'.exists /\ transport'.source = None

\* C13: each call of the completion callback, on natural end or on error,
\* first clears the driver's currently-playing reference and then calls the
\* continuation exactly once, which advances the queue once; without a
\* continuation it only clears the reference.
C13_AfterClearsThenContinues ==
    [][ PlaybackEnded =>
          /\ vlog' # <<>>
          /\ vlog'[1] = "cur_audio_cleared"
          /\ Count(vlog', "cur_audio_cleared") = 1
          /\ voice'.cur_audio = None
          /\ IF voice.after_function
             THEN /\ Count(vlog', "after_function") = 1
                  /\ vlog'[Len(vlog')] = "after_function"
                  /\ lastOp'.name = "get_next_audio"
                  /\ Len(SelectSeq(trace', IsPromotion)) = 1
                  /\ \E e \in EnvsNow :
                        LET s == get_next_audio(Self, e)
                        IN  /\ queue' = s.queue
                            /\ previous_queue' = s.previous_queue
                            /\ current_audio' = s.current_audio
             ELSE /\ Count(vlog', "after_function") = 0
                  /\ trace' = <<>>
                  /\ queue' = queue
                  /\ previous_queue' = previous_queue
                  /\ current_audio' = current_audio
                  /\ bus' = bus
      ]_vars

C13_Witness ==
    /\ vlog = <<"cur_audio_cleared", "play_error", "error_logged", "after_function">>
    /\ lastOp.name = "get_next_audio"
    /\ voice.cur_audio = None
    /\ transport.source = None
    /\ current_audio = 2
    /\ previous_queue = <<1>>

\* The play calls the driver issued in the step that ends.
PlayCalls == Count(vlog', "play") + Count(vlog', "play_raised")

\* C14: handling new_audio(b) while the transport is playing replaces the
\* source in place, with no stop, no play call and no completion callback,
\* and the driver's currently-playing reference becomes b; when nothing is
\* playing the driver issues one play call for b.  Handling new_audio never
\* touches the queue, so a get_next_audio during playback advances it once.
C14_HotSwapOrPlay ==
    [][ lastOp'.name = "stream" =>
          LET b == lastOp'.arg IN
          /\ voice'.cur_audio = b
          /\ Count(vlog', "stop") = 0
          /\ Count(vlog', "cur_audio_cleared") = 0
          /\ Count(vlog', "after_function") = 0
          /\ trace' = <<>>
          /\ queue' = queue
          /\ previous_queue' = previous_queue
          /\ current_audio' = current_audio
          /\ IF is_playing(Driver)
             THEN /\ Count(vlog', "source_replaced") = 1
                  /\ PlayCalls = 0
                  /\ transport'.source = _get_audio_source(b)
             ELSE /\ Count(vlog', "source_replaced") = 0
                  /\ PlayCalls = 1
                  /\ Count(vlog', "play") = 1
                        => transport'.source = _get_audio_source(b)
                  /\ Count(vlog', "play_raised") = 1
                        => transport'.source = None
      ]_vars

C14_Witness ==
    /\ lastOp.name = "stream"
    /\ lastOp.arg = 2
    /\ lastOp.after_next
    /\ vlog = <<"remain", "source_replaced">>
    /\ voice.cur_audio = 2
    /\ transport.source = 2
    /\ current_audio = 2
    /\ previous_queue = <<1>>

\* C17: handling no_audio ends with the driver holding no transport handle
\* and raises nothing, with or without a connected transport before; handling
\* it a second time changes nothing in the driver.
C17_DisconnectIdempotent ==
    LET d1 == disconnect_voice(Driver)
        d2 == disconnect_voice([d1 EXCEPT !.log = <<>>])
    IN  /\ ~d1.voice.client
        /\ ~d1.raised
        /\ ~d2.raised
        /\ d2.voice = d1.voice
        /\ d2.transport = d1.transport
        /\ lastOp.name = "disconnect_voice" =>
              /\ ~voice.client
              /\ d1.voice = voice
              /\ d1.transport = transport
              /\ d1.log = <<"warning_logged">>

C17_Witness ==
    /\ lastOp.name = "disconnect_voice"
    /\ vlog = <<"disconnect">>
    /\ ~voice.client
    /\ ~transport.exists
    /\ current_audio = None
    /\ previous_queue = <<1>>

====
